---- MODULE Spec2Model ----
(***************************************************************************)
(* fast_download (src/src/main.rs): a bulk downloader.  main() parses the  *)
(* url file into a Vec<Image>, wraps one download_image call per image in  *)
(* a future, pushes the futures into a FuturesUnordered and awaits         *)
(* futures.next() whenever the set holds more than 20 futures, then drains *)
(* the set.  The futures are lazy: they are polled only while main awaits  *)
(* futures.next(), in the order of FuturesUnordered's ready-to-run queue   *)
(* (push order for new futures, wake order for the ones the network woke). *)
(* All futures run inside the main task, so the code between two awaits of *)
(* a future is one uninterrupted step.                                     *)
(***************************************************************************)
EXTENDS Integers, Sequences, FiniteSets, TLC

\* Bounds of the model.  The code's limit is the literal 20 (main.rs:75);
\* the model is parametric in it and is explored with a small value.
MaxImages == 3
ConcurrencyLimit == 1

Urls == {"u1"}
Paths == {"d/a", "d/b"}

\* The two paths are interchangeable (the initial filesystem is any): the
\* first line of the url file is taken to name this one.
FirstPath == "d/a"

\* path.parent() of a destination (main.rs:157).
Parent(p) == "d"

\* enum DownloadCompleted (main.rs:26-29)
DownloadCompleted == {"Success", "Skipped"}

\* enum DownloadError (main.rs:32-38)
DownloadError == {"FailedToCreateParentDirectory", "FailedToCreateFile",
                  "FailedToDownloadToFile", "FailedToConvertResponseToBytes",
                  "FailedToGetUrl"}

\* struct Image (main.rs:20-23)
Image == [url : Urls, file_name : Paths]

\* Contents of a path of the filesystem.
\* Absent: no such file.  Old: a file that predates this execution.  A file
\* this execution wrote carries the index of the future that wrote it.
Absent == [kind |-> "absent", by |-> 0]
Old == [kind |-> "old", by |-> 0]

\* What a response looks like to reqwest::get (main.rs:152): a transport
\* error is Err; a response of any status, 2xx or not, is Ok(response).
Statuses == {"200", "404"}

VARIABLES
  reader,          \* what the BufReader has left to read of the url file
  invalidLines,    \* the lines printed as "invalid line: .."
  images,          \* Vec<Image> returned by parse_url_file (main.rs:45)
  ignoreErrors,    \* args.ignore_download_errors
  forceRedownload, \* args.force_redownload
  run,             \* 1 in the first execution of the program, 2 in the second
  pc,              \* position of main
  launched,        \* number of images the for loop has consumed
  futures,         \* the FuturesUnordered: indices of the futures it holds
  ready,           \* its ready-to-run queue
  ustate,          \* position of each image's future
  outcome,         \* DownloadResult of each image's download_image call
  fs,              \* path -> content
  dirs,            \* directories that exist
  progress,        \* position of the ProgressBar
  finished,        \* pb.finish_and_clear() was called
  existed,         \* what path.exists() answered to each future
  netIssued,       \* reqwest::get calls issued by each future
  netres,          \* the response each future holds between its two awaits
  deleted,         \* the future removed its destination
  wrote,           \* the future created (truncated) its destination
  fs1,             \* filesystem at the end of the first execution
  dirs1,
  clean1,          \* the first execution ended with every image Success or Skipped
  fetched1         \* the first execution downloaded at least one image

vars == <<reader, invalidLines, images, ignoreErrors, forceRedownload, run, pc, launched, futures,
          ready, ustate, outcome, fs, dirs, progress, finished, existed,
          netIssued, netres, deleted, wrote, fs1, dirs1, clean1,
          fetched1>>

urlFile == <<reader, invalidLines>>
ghost1 == <<fs1, dirs1, clean1, fetched1>>
disk == <<fs, dirs>>
bar == <<progress, finished>>
unitGhost == <<existed, netIssued, netres, deleted, wrote>>

N == Len(images)
Idx == 1..N
All(v) == [i \in Idx |-> v]

SeqsUpTo(S, n) == UNION {[1..k -> S] : k \in 0..n}

\* main.rs:43-49: the state of a process that has parsed its arguments and
\* its url file: nothing launched, an empty FuturesUnordered, the bar at 0.
\* The images are any list of at most MaxImages records; the reader is at
\* the end of the file, and what the parse printed is not kept (SpecParse
\* is the specification of the parse itself).
Init ==
  /\ reader = <<>>
  /\ invalidLines = <<>>
  /\ images \in SeqsUpTo(Image, MaxImages)
  /\ images # <<>> => images[1].file_name = FirstPath
  /\ ignoreErrors \in BOOLEAN
  /\ forceRedownload \in BOOLEAN
  /\ run = 1
  /\ fs \in [Paths -> {Absent, Old}]
  /\ dirs \in SUBSET {Parent(p) : p \in Paths}
  /\ \A p \in Paths : fs[p] # Absent => Parent(p) \in dirs
  /\ pc = "start"
  /\ launched = 0
  /\ futures = {}
  /\ ready = <<>>
  /\ ustate = All("new")
  /\ outcome = All("None")
  /\ progress = 0
  /\ finished = FALSE
  /\ existed = All("unchecked")
  /\ netIssued = All(0)
  /\ netres = All("none")
  /\ deleted = All(FALSE)
  /\ wrote = All(FALSE)
  /\ fs1 = fs
  /\ dirs1 = dirs
  /\ clean1 = FALSE
  /\ fetched1 = FALSE

-----------------------------------------------------------------------------
(* parse_url_file: the url file is a string of characters; the reader      *)
(* yields its lines, each line is split on whitespace, and a line of at    *)
(* least two parts becomes an Image.                                       *)

\* Length of the url file in characters.
MaxFileLen == 7

Newline == "\n"
Whitespace == {" "}
Chars == {"a", "b"} \cup Whitespace \cup {Newline}
UrlFiles == SeqsUpTo(Chars, MaxFileLen)

\* main.rs:121: BufRead::lines() yields the text up to each newline, without
\* the newline, and the text after the last newline when there is any.
RECURSIVE ReadLines(_)
ReadLines(f) ==
  IF f = <<>> THEN <<>>
  ELSE LET nl == {k \in 1..Len(f) : f[k] = Newline} IN
         IF nl = {} THEN <<f>>
         ELSE LET k == CHOOSE x \in nl : \A y \in nl : x <= y IN
                <<SubSeq(f, 1, k - 1)>> \o ReadLines(SubSeq(f, k + 1, Len(f)))

\* main.rs:126: str::split_whitespace() scans the line and yields every run
\* of characters that are not whitespace; cur is the run being scanned.
RECURSIVE SplitFrom(_, _, _, _)
SplitFrom(line, k, cur, parts) ==
  IF k > Len(line)
    THEN IF cur = <<>> THEN parts ELSE Append(parts, cur)
    ELSE IF line[k] \in Whitespace
           THEN SplitFrom(line, k + 1, <<>>,
                          IF cur = <<>> THEN parts ELSE Append(parts, cur))
           ELSE SplitFrom(line, k + 1, Append(cur, line[k]), parts)

SplitWhitespace(line) == SplitFrom(line, 1, <<>>, <<>>)

\* main.rs:132: [..].join(" ")
RECURSIVE Join(_, _)
Join(parts, sep) ==
  IF parts = <<>> THEN <<>>
  ELSE IF Len(parts) = 1 THEN parts[1]
  ELSE parts[1] \o sep \o Join(Tail(parts), sep)

\* TooFewParts with the bound off by one.
TooFewPartsOne(parts) == Len(parts) < 1

\* main.rs:127: `if parts.len() < 2`
TooFewParts(parts) == Len(parts) < 2

\* main.rs:122-136: the body of the loop over the lines; acc holds the
\* images pushed and the lines printed so far.
ParseLine(line, acc) ==
  IF Len(line) = 0 THEN acc
  ELSE LET parts == SplitWhitespace(line) IN
         IF TooFewParts(parts)
           THEN [acc EXCEPT !.invalid = Append(@, line)]
           ELSE [acc EXCEPT !.images =
                   Append(@, [url |-> parts[1],
                              file_name |-> Join(Tail(parts), <<" ">>)])]

RECURSIVE ParseLines(_, _)
ParseLines(lines, acc) ==
  IF lines = <<>> THEN acc
  ELSE ParseLines(Tail(lines), ParseLine(Head(lines), acc))

\* main.rs:117-139
parse_url_file(f) == ParseLines(ReadLines(f), [images |-> <<>>, invalid |-> <<>>])

\* main.rs:44-45: a process that has parsed its arguments and is about to
\* read its url file.
InitParse ==
  /\ reader \in UrlFiles
  /\ invalidLines = <<>>
  /\ images = <<>>
  /\ ignoreErrors = FALSE
  /\ forceRedownload = FALSE
  /\ run = 1
  /\ fs = [p \in Paths |-> Absent]
  /\ dirs = {}
  /\ pc = "parse"
  /\ launched = 0
  /\ futures = {}
  /\ ready = <<>>
  /\ ustate = <<>>
  /\ outcome = <<>>
  /\ progress = 0
  /\ finished = FALSE
  /\ existed = <<>>
  /\ netIssued = <<>>
  /\ netres = <<>>
  /\ deleted = <<>>
  /\ wrote = <<>>
  /\ fs1 = fs
  /\ dirs1 = dirs
  /\ clean1 = FALSE
  /\ fetched1 = FALSE

\* main.rs:45: main calls parse_url_file, which reads the file to its end
\* and returns the images; no future exists yet.
ParseFile ==
  /\ pc = "parse"
  /\ \E r \in {parse_url_file(reader)} :
       /\ images' = r.images
       /\ invalidLines' = r.invalid
       /\ \E n \in {Len(r.images)} :
            /\ ustate' = [i \in 1..n |-> "new"]
            /\ outcome' = [i \in 1..n |-> "None"]
            /\ existed' = [i \in 1..n |-> "unchecked"]
            /\ netIssued' = [i \in 1..n |-> 0]
            /\ netres' = [i \in 1..n |-> "none"]
            /\ deleted' = [i \in 1..n |-> FALSE]
            /\ wrote' = [i \in 1..n |-> FALSE]
  /\ reader' = <<>>
  /\ pc' = "start"
  /\ UNCHANGED <<ignoreErrors, forceRedownload, run, launched, futures, ready,
                 disk, bar, ghost1>>

NextParse == ParseFile

SpecParse == InitParse /\ [][NextParse]_vars

-----------------------------------------------------------------------------
(* main: the fill-then-drain loop.  main is one task; between two awaits   *)
(* of futures.next() it runs without interruption, so its code is written  *)
(* as steps on its own state and run up to the next await.                 *)

\* The part of the state main owns.
MainState ==
  [pc |-> pc, launched |-> launched, futures |-> futures, ready |-> ready,
   ustate |-> ustate, progress |-> progress, finished |-> finished]

SetMain(m) ==
  /\ pc' = m.pc
  /\ launched' = m.launched
  /\ futures' = m.futures
  /\ ready' = m.ready
  /\ ustate' = m.ustate
  /\ progress' = m.progress
  /\ finished' = m.finished

\* NeedsWait with the test one too high.
NeedsWaitLate(n) == n > ConcurrencyLimit + 1

\* main.rs:75: `if futures.len() > 20`
NeedsWait(n) == n > ConcurrencyLimit

\* Launch with the bar advanced at the push instead of at the completion.
LaunchInc(m) ==
  LET i == m.launched + 1 IN
    [m EXCEPT !.launched = i,
              !.futures = @ \cup {i},
              !.ready = Append(@, i),
              !.ustate[i] = "pushed",
              !.progress = @ + 1,
              !.pc = IF NeedsWait(Cardinality(m.futures \cup {i}))
                       THEN "next_for" ELSE "for"]

\* Launch with the first image taken at every iteration.
LaunchFirst(m) ==
  [m EXCEPT !.launched = @ + 1,
            !.futures = @ \cup {1},
            !.ready = Append(@, 1),
            !.ustate[1] = "pushed",
            !.pc = IF NeedsWait(Cardinality(m.futures \cup {1}))
                     THEN "next_for" ELSE "for"]

\* Launch with the new future put at the head of the ready-to-run queue.
LaunchFront(m) ==
  LET i == m.launched + 1 IN
    [m EXCEPT !.launched = i,
              !.futures = @ \cup {i},
              !.ready = <<i>> \o @,
              !.ustate[i] = "pushed",
              !.pc = IF NeedsWait(Cardinality(m.futures \cup {i}))
                       THEN "next_for" ELSE "for"]

\* main.rs:50-76: the for loop takes the next image, builds its future,
\* pushes it (FuturesUnordered::push enqueues it as ready to run) and tests
\* the length of the set: above the limit it awaits futures.next().
Launch(m) ==
  LET i == m.launched + 1 IN
    [m EXCEPT !.launched = i,
              !.futures = @ \cup {i},
              !.ready = Append(@, i),
              !.ustate[i] = "pushed",
              !.pc = IF NeedsWait(Cardinality(m.futures \cup {i}))
                       THEN "next_for" ELSE "for"]

\* main.rs:50, 79: the images are exhausted.
ForDone(m) == [m EXCEPT !.pc = "while"]

\* IncFor with the pb.inc(1) of the for loop left out.
IncForNoInc(m) == [m EXCEPT !.pc = "for"]

\* main.rs:77: pb.inc(1) after futures.next() returned in the for loop.
IncFor(m) == [m EXCEPT !.progress = @ + 1, !.pc = "for"]

\* WhileTest with the draining loop left out: main goes on to line 84; and
\* with the test left out: main awaits futures.next() whatever the set holds.
WhileTestNever(m) == [m EXCEPT !.pc = "finish"]
WhileTestAlways(m) == [m EXCEPT !.pc = "next_while"]

\* main.rs:80-81: `while futures.len() > 0`: await futures.next(), or leave
\* the loop.
WhileTest(m) ==
  [m EXCEPT !.pc = IF Cardinality(m.futures) > 0 THEN "next_while" ELSE "finish"]

\* main.rs:82: pb.inc(1) after futures.next() returned in the while loop.
IncWhile(m) == [m EXCEPT !.progress = @ + 1, !.pc = "while"]

\* main.rs:84-85: pb.finish_and_clear(), main returns.
Finish(m) == [m EXCEPT !.finished = TRUE, !.pc = "done"]

\* main.rs:50-85: the next step of main from its position; at an await of
\* futures.next() and after its end main does nothing by itself.
MainStep(m) ==
  CASE m.pc = "for" -> IF m.launched < N THEN Launch(m) ELSE ForDone(m)
    [] m.pc = "inc_for" -> IncFor(m)
    [] m.pc = "while" -> WhileTest(m)
    [] m.pc = "inc_while" -> IncWhile(m)
    [] m.pc = "finish" -> Finish(m)
    [] OTHER -> m

\* main runs from its position to its next await of futures.next(), or to
\* its return.
RECURSIVE RunMain(_)
RunMain(m) ==
  IF m.pc \in {"for", "inc_for", "while", "inc_while", "finish"}
    THEN CHOOSE r \in {RunMain(x) : x \in {MainStep(m)}} : TRUE
    ELSE m

\* main.rs:47-50: main creates the set and the bar and enters the for loop.
Begin ==
  /\ pc = "start"
  /\ \E m0 \in {[MainState EXCEPT !.pc = "for"]} :
       \E m \in {RunMain(m0)} : SetMain(m)
  /\ UNCHANGED <<images, ignoreErrors, forceRedownload, run, outcome, disk,
                 unitGhost, ghost1, urlFile>>

-----------------------------------------------------------------------------
(* The futures: async move { match download_image(..).await {..} }         *)

\* main.rs:76, 81: main is suspended in futures.next().await; only then are
\* the futures of the set polled, the head of the ready-to-run queue first.
Awaiting == pc \in {"next_for", "next_while"}
Polled(i) == Awaiting /\ ready # <<>> /\ Head(ready) = i

\* Fatal with the panic left out, and with the -i flag not consulted.
FatalNever(res) == FALSE
FatalAlways(res) == res \in DownloadError

\* main.rs:53-61: an Err is fatal unless -i was given.
Fatal(res) == res \in DownloadError /\ ~ignoreErrors

\* Complete with futures.next() handing out the oldest future of the set
\* instead of the one that is ready.
CompleteOldest(i, res) ==
  /\ outcome' = [outcome EXCEPT ![i] = res]
  /\ IF Fatal(res)
       THEN \E m \in {[MainState EXCEPT !.ustate[i] = "panicked",
                                         !.ready = Tail(@),
                                         !.pc = "panicked"]} : SetMain(m)
       ELSE \E m0 \in {[MainState EXCEPT
                            !.ustate[i] = "done",
                            !.ready = Tail(@),
                            !.futures = @ \ {CHOOSE o \in @ : \A x \in @ : o <= x},
                            !.pc = IF pc = "next_for" THEN "inc_for"
                                                      ELSE "inc_while"]} :
              \E m \in {RunMain(m0)} : SetMain(m)

\* main.rs:52-73 and 76-77/81-82: download_image returned res to the future
\* of image i.  On a fatal Err the future panics, which unwinds main;
\* otherwise the future is ready, futures.next() removes it from the set
\* and returns, and main runs on.
Complete(i, res) ==
  /\ outcome' = [outcome EXCEPT ![i] = res]
  /\ IF Fatal(res)
       THEN \E m \in {[MainState EXCEPT !.ustate[i] = "panicked",
                                         !.ready = Tail(@),
                                         !.pc = "panicked"]} : SetMain(m)
       ELSE \E m0 \in {[MainState EXCEPT
                            !.ustate[i] = "done",
                            !.ready = Tail(@),
                            !.futures = @ \ {i},
                            !.pc = IF pc = "next_for" THEN "inc_for"
                                                      ELSE "inc_while"]} :
              \E m \in {RunMain(m0)} : SetMain(m)

\* The future stays pending at an await: it leaves the ready-to-run queue
\* until the network wakes it.
Suspend(i, at) ==
  /\ \E m \in {[MainState EXCEPT !.ustate[i] = at, !.ready = Tail(@)]} : SetMain(m)
  /\ UNCHANGED outcome

\* SkipsDownload with the flag inverted, and with the early return left out.
SkipsDownloadInverted(exists) == exists /\ forceRedownload
SkipsDownloadNever(exists) == FALSE

\* main.rs:143-150: the destination exists and -f was not given.
SkipsDownload(exists) == exists /\ ~forceRedownload

\* AfterRemove with the file left in place (an overwrite in place), and
\* with the whole parent directory emptied.
RemoveNoop(p) == fs
RemoveSiblings(p) == [q \in Paths |-> IF Parent(q) = Parent(p) THEN Absent ELSE fs[q]]

\* main.rs:145: std::fs::remove_file(&path) succeeded.
AfterRemove(p) == [fs EXCEPT ![p] = Absent]

\* File contents written by the future of image i (main.rs:162-164): the
\* whole body, or a part of it when the copy fails.
Body(i) == [kind |-> "body", by |-> i]
Partial(i) == [kind |-> "partial", by |-> i]

\* AfterWrite with a file that exists left as it is (create_new), and with
\* a file that exists opened without truncation, so that what another
\* future wrote beyond the new bytes stays.
WriteIfAbsent(p, c) == IF fs[p] = Absent THEN [fs EXCEPT ![p] = c] ELSE fs
WriteNoTruncate(p, c) ==
  IF fs[p].kind \in {"body", "partial"} /\ fs[p].by # c.by
    THEN [fs EXCEPT ![p] = [kind |-> "mixed", by |-> c.by]]
    ELSE [fs EXCEPT ![p] = c]

\* main.rs:162-164: File::create creates the file or truncates the one that
\* exists, io::copy writes the bytes: the path holds what this future wrote.
AfterWrite(p, c) == [fs EXCEPT ![p] = c]

\* DeleteFailed with the error of remove_file ignored: the future goes on
\* to reqwest::get.
DeleteFailedIgnored(i) ==
  /\ netIssued' = [netIssued EXCEPT ![i] = @ + 1]
  /\ Suspend(i, "get")
  /\ UNCHANGED <<disk, deleted>>

\* main.rs:145-147: remove_file failed: the future returns
\* FailedToCreateFile.
DeleteFailed(i) ==
  /\ Complete(i, "FailedToCreateFile")
  /\ UNCHANGED <<disk, netIssued, deleted>>

\* main.rs:141-152, first poll of the future of image i: path.exists(),
\* remove_file or the early Skipped, then reqwest::get is issued.  The get
\* either fails at once (a url the client rejects) or stays pending.
PollFirst(i) ==
  /\ Polled(i)
  /\ ustate[i] = "pushed"
  /\ LET p == images[i].file_name
         exists == fs[p] # Absent
     IN
       /\ existed' = [existed EXCEPT ![i] = IF exists THEN "yes" ELSE "no"]
       /\ IF SkipsDownload(exists)
            THEN /\ Complete(i, "Skipped")
                 /\ UNCHANGED <<disk, netIssued, deleted>>
            ELSE \E rm \in IF exists THEN {"removed", "remove_err"} ELSE {"nothing"},
                    get \in {"pending", "err"} :
                   IF rm = "remove_err"
                     THEN DeleteFailed(i)
                     ELSE /\ fs' = IF exists THEN AfterRemove(p) ELSE fs
                          /\ deleted' = [deleted EXCEPT ![i] = exists]
                          /\ netIssued' = [netIssued EXCEPT ![i] = @ + 1]
                          /\ UNCHANGED dirs
                          /\ IF get = "err"
                               THEN Complete(i, "FailedToGetUrl")
                               ELSE Suspend(i, "get")
  /\ UNCHANGED <<images, ignoreErrors, forceRedownload, run, netres, wrote,
                 ghost1, urlFile>>

\* The network has something for the future of image i: its waker puts it
\* back on the ready-to-run queue.
Wake(i) ==
  /\ pc \notin {"done", "panicked"}
  /\ i \in futures
  /\ ustate[i] \in {"get", "bytes"}
  /\ \A k \in 1..Len(ready) : ready[k] # i
  /\ ready' = Append(ready, i)
  /\ UNCHANGED <<images, ignoreErrors, forceRedownload, run, pc, launched,
                 futures, ustate, outcome, disk, bar, unitGhost, ghost1,
                 urlFile>>

\* main.rs:152-154, 175: reqwest::get resolved.  A transport error is Err;
\* any response, whatever its status, is Ok and the body is awaited.
PollGet(i) ==
  /\ Polled(i)
  /\ ustate[i] = "get"
  /\ \E r \in {"err"} \cup Statuses :
       IF r = "err"
         THEN /\ Complete(i, "FailedToGetUrl")
              /\ UNCHANGED netres
         ELSE /\ Suspend(i, "bytes")
              /\ netres' = [netres EXCEPT ![i] = r]
  /\ UNCHANGED <<images, ignoreErrors, forceRedownload, run, disk, existed,
                 netIssued, deleted, wrote, ghost1, urlFile>>

\* main.rs:154-173: response.bytes() resolved; on Ok the parent directory
\* is created (create_dir_all of an existing directory is Ok), the file is
\* created (truncated) and the bytes are copied; the response is dropped.
PollBytes(i) ==
  /\ Polled(i)
  /\ ustate[i] = "bytes"
  /\ LET p == images[i].file_name IN
     \E r \in {"all_ok", "bytes_err", "mkdir_err", "create_err", "copy_err"} :
       /\ r = "mkdir_err" => Parent(p) \notin dirs
       /\ dirs' = IF r \in {"create_err", "copy_err", "all_ok"}
                    THEN dirs \cup {Parent(p)} ELSE dirs
       /\ fs' = CASE r = "copy_err" -> AfterWrite(p, Partial(i))
                  [] r = "all_ok" -> AfterWrite(p, Body(i))
                  [] OTHER -> fs
       /\ wrote' = [wrote EXCEPT ![i] = r \in {"copy_err", "all_ok"}]
       /\ netres' = [netres EXCEPT ![i] = "none"]
       /\ Complete(i, CASE r = "bytes_err" -> "FailedToConvertResponseToBytes"
                        [] r = "mkdir_err" -> "FailedToCreateParentDirectory"
                        [] r = "create_err" -> "FailedToCreateFile"
                        [] r = "copy_err" -> "FailedToDownloadToFile"
                        [] OTHER -> "Success")
  /\ UNCHANGED <<images, ignoreErrors, forceRedownload, run, existed, netIssued,
                 deleted, ghost1, urlFile>>

\* The program is run a second time on the same url file, without -f, on
\* the filesystem the first execution left (main.rs:43-49).  For the second
\* execution every file that exists predates it.
Restart ==
  /\ run = 1
  /\ pc \in {"done", "panicked"}
  /\ run' = 2
  /\ fs' = [p \in Paths |-> IF fs[p] = Absent THEN Absent ELSE Old]
  /\ fs1' = fs'
  /\ dirs1' = dirs
  /\ clean1' = (pc = "done" /\ \A i \in Idx : outcome[i] \in DownloadCompleted)
  /\ fetched1' = (\E i \in Idx : outcome[i] = "Success")
  /\ forceRedownload' = FALSE
  /\ pc' = "start"
  /\ launched' = 0
  /\ futures' = {}
  /\ ready' = <<>>
  /\ ustate' = All("new")
  /\ outcome' = All("None")
  /\ progress' = 0
  /\ finished' = FALSE
  /\ existed' = All("unchecked")
  /\ netIssued' = All(0)
  /\ netres' = All("none")
  /\ deleted' = All(FALSE)
  /\ wrote' = All(FALSE)
  /\ UNCHANGED <<images, ignoreErrors, dirs, urlFile>>

Next ==
  \/ Begin
  \/ \E i \in Idx : PollFirst(i)
  \/ \E i \in Idx : Wake(i)
  \/ \E i \in Idx : PollGet(i)
  \/ \E i \in Idx : PollBytes(i)

Spec == Init /\ [][Next]_vars

\* The futures that are ready to run are polled and every retrieval ends:
\* as long as a step is possible, a step is taken.
SpecLive == Spec /\ WF_vars(Next)

NextTwice == Next \/ Restart

SpecTwice == Init /\ [][NextTwice]_vars

-----------------------------------------------------------------------------
(* Properties                                                              *)

Dest(i) == images[i].file_name
Ended == pc \in {"done", "panicked"}
Completed(i) == ustate[i] \in {"done", "panicked"}
\* Futures that were polled at least once and have not returned.
Started == {i \in Idx : ustate[i] \in {"get", "bytes"}}
Drained == {i \in Idx : ustate[i] = "done"}
Failures == {i \in Idx : outcome[i] \in DownloadError}

\* C1: at every moment the number of download_image calls that have started
\* and have not completed is at most the concurrency limit.
C1_ConcurrencyInvariant == Cardinality(Started) <= ConcurrencyLimit

\* C2: when the run has ended, the bar has advanced once per parsed image
\* if and only if the run did not abort; after an abort it has advanced
\* strictly fewer times than there are images.
C2_ProgressCount ==
  /\ pc = "done" => progress = N
  /\ pc = "panicked" => progress < N
  /\ Ended => (progress = N <=> pc = "done")

C2_Witness == pc = "panicked" /\ N >= 2 /\ progress = N - 1

\* C3: a failed download with ignoreErrors false ends the run abnormally,
\* and from then on nothing is launched, nothing is drained and the bar
\* does not advance.
C3_FailFast ==
  [][/\ (~ignoreErrors /\ \E i \in Idx : outcome'[i] \in DownloadError)
          => pc' = "panicked"
     /\ pc = "panicked"
          => /\ pc' = "panicked"
             /\ UNCHANGED <<launched, futures, ustate, outcome, progress, fs>>]_vars

C3_Witness ==
  /\ pc = "panicked"
  /\ launched < N
  /\ \E i \in Idx : ustate[i] \in {"get", "bytes"}

\* C4: with ignoreErrors true no failure, of whatever kind and number, ends
\* the run: after a failure main is either awaiting the next completion or
\* has returned normally, with every image launched and every completion
\* drained.
C4_ContinueOnError ==
  ignoreErrors =>
    /\ pc # "panicked"
    /\ \A i \in Idx : ustate[i] # "panicked"
    /\ (Failures # {} /\ ~Awaiting /\ pc # "start") =>
         /\ pc = "done"
         /\ finished
         /\ launched = N
         /\ futures = {}
         /\ Drained = Idx
         /\ progress = N

C4_Witness ==
  /\ ignoreErrors
  /\ pc = "done"
  /\ Cardinality({outcome[i] : i \in Failures}) >= 2
  /\ Cardinality(Failures) = N

\* C5: the run ends only by a fatal abort, caused by a failed download with
\* ignoreErrors false, or by a normal return with every image launched and
\* the in-flight set empty.
C5_Termination ==
  /\ pc = "panicked" => ~ignoreErrors /\ Failures # {}
  /\ pc = "done" => launched = N /\ futures = {} /\ Drained = Idx
  /\ ~ENABLED Next => Ended

C5_Witness == pc = "done" /\ N > ConcurrencyLimit + 1 /\ Failures = {}

\* C6: a future that finds its destination at path.exists() with
\* forceRedownload false returns Skipped, issues no reqwest::get and leaves
\* the filesystem as it found it.
C6_SkipSemantics ==
  /\ [](\A i \in Idx : (existed[i] = "yes" /\ ~forceRedownload) =>
          /\ outcome[i] = "Skipped"
          /\ netIssued[i] = 0
          /\ ~deleted[i] /\ ~wrote[i]
          /\ fs[Dest(i)].by # i)
  /\ [][\A i \in Idx :
          (existed[i] = "unchecked" /\ existed'[i] = "yes" /\ ~forceRedownload)
            => UNCHANGED <<fs, dirs>>]_vars

C6_Witness ==
  \E i, j \in Idx :
    /\ outcome[i] = "Skipped"
    /\ fs[Dest(i)] = Old
    /\ outcome[j] = "Success"

\* C7 as stated: whatever the first execution did, a second execution with
\* forceRedownload false leaves the filesystem as the first left it and
\* every image is Skipped.
C7_Idempotence ==
  run = 2 =>
    /\ fs = fs1 /\ dirs = dirs1
    /\ \A i \in Idx : outcome[i] \in {"None", "Skipped"}
    /\ pc # "panicked"

\* C7 amended: the same, for a first execution that returned normally with
\* every image Success or Skipped.
C7_IdempotenceAfterCleanRun ==
  (run = 2 /\ clean1) =>
    /\ fs = fs1 /\ dirs = dirs1
    /\ \A i \in Idx : outcome[i] \in {"None", "Skipped"}
    /\ pc # "panicked"
    /\ pc = "done" => \A i \in Idx : outcome[i] = "Skipped"
    /\ ~ENABLED NextTwice => pc = "done"

C7_Witness ==
  /\ run = 2 /\ clean1 /\ fetched1
  /\ pc = "done"
  /\ N >= 2
  /\ \A i \in Idx : outcome[i] = "Skipped"

\* C8 as stated: a future run with forceRedownload true against an existing
\* destination always deletes it, and the old content never remains once
\* the future has completed.
C8_OverwriteAlways ==
  \A i \in Idx :
    (Completed(i) /\ existed[i] = "yes" /\ forceRedownload) =>
      deleted[i] /\ fs[Dest(i)] # Old

\* C8 amended: such a future first tries to delete the destination.  If the
\* deletion fails it returns FailedToCreateFile with the destination as it
\* was and no reqwest::get; if it succeeds the destination is absent from
\* that step on until a file creation succeeds, so the old content does
\* not remain, and the future recreates the file only when it reaches
\* File::create successfully.
C8_OverwriteWhenRemoved ==
  /\ [](\A i \in Idx : (existed[i] = "yes" /\ forceRedownload) =>
          /\ ~deleted[i] => /\ outcome[i] = "FailedToCreateFile"
                            /\ netIssued[i] = 0 /\ ~wrote[i]
          /\ deleted[i] => /\ fs[Dest(i)] # Old
                           /\ netIssued[i] = 1
                           /\ wrote[i] <=> outcome[i] \in {"Success", "FailedToDownloadToFile"}
                           /\ fs[Dest(i)].kind \in {"absent", "body", "partial"})
  /\ [][\A i \in Idx :
          (existed[i] = "unchecked" /\ existed'[i] = "yes" /\ forceRedownload)
            => IF deleted'[i] THEN fs' = [fs EXCEPT ![Dest(i)] = Absent]
                              ELSE fs' = fs]_vars

C8_Witness ==
  \E i \in Idx :
    /\ existed[i] = "yes" /\ forceRedownload /\ deleted[i]
    /\ outcome[i] = "FailedToGetUrl"
    /\ fs[Dest(i)] = Absent

\* C9: a retrieval that fails, a response with a non-success status
\* included, makes the future return FailedToGetUrl without creating or
\* writing the destination.
C9_FetchFailure ==
  [][\A i \in Idx :
       /\ (ustate[i] = "get" /\ Completed(i)')
            => outcome'[i] = "FailedToGetUrl" /\ UNCHANGED <<fs, dirs>>
       /\ (netres[i] = "404" /\ Completed(i)')
            => outcome'[i] = "FailedToGetUrl" /\ UNCHANGED <<fs, dirs>>]_vars

\* C10 as stated: the bar gets one increment per drained completion and a
\* finish call once the run has ended, by a normal return or by an abort.
C10_ProgressProtocol ==
  /\ progress = Cardinality(Drained)
  /\ Ended => finished

\* C10 amended: one increment per drained completion, none for a launch;
\* the finish call is made exactly when main returns normally, and after a
\* fatal abort the bar has received neither a finish call nor an increment
\* for the failing completion.
C10_ProgressProtocolOnReturn ==
  /\ progress = Cardinality(Drained)
  /\ finished <=> pc = "done"

C10_Witness == pc = "panicked" /\ ~finished /\ progress >= 1 /\ launched = N

-----------------------------------------------------------------------------
(* Record parsing, stated on the characters of a line.                     *)

\* The positions where a run of non-whitespace characters starts and ends.
TokenStarts(l) ==
  {k \in 1..Len(l) : l[k] \notin Whitespace /\ (k = 1 \/ l[k - 1] \in Whitespace)}
TokenEnds(l) ==
  {k \in 1..Len(l) : l[k] \notin Whitespace /\ (k = Len(l) \/ l[k + 1] \in Whitespace)}

\* The j-th smallest element of a set of numbers.
Nth(S, j) == CHOOSE k \in S : Cardinality({x \in S : x <= k}) = j

HasRecord(l) == Cardinality(TokenStarts(l)) >= 2

\* The first token of a line.
SourceOf(l) == SubSeq(l, Nth(TokenStarts(l), 1), Nth(TokenEnds(l), 1))

\* The line from the start of its second token to the end of its last
\* one, each run of whitespace replaced by one space.
DestinationOf(l) ==
  LET from == Nth(TokenStarts(l), 2)
      to == Nth(TokenEnds(l), Cardinality(TokenEnds(l)))
      kept == {k \in from..to : l[k] \notin Whitespace \/ l[k - 1] \notin Whitespace}
  IN [j \in 1..Cardinality(kept) |->
        LET c == l[Nth(kept, j)] IN IF c \in Whitespace THEN " " ELSE c]

\* C11: parse_url_file returns, in line order, one record per line that has
\* at least two whitespace-delimited tokens, its source the first token and
\* its destination the remaining tokens joined by single spaces; a line
\* with fewer tokens that is not empty is reported, an empty line is not,
\* and neither contributes a record or stops the parse.
C11_RecordParsing ==
  [][pc = "parse" =>
       LET lines == ReadLines(reader)
           rec == {k \in 1..Len(lines) : HasRecord(lines[k])}
           bad == {k \in 1..Len(lines) : Len(lines[k]) > 0 /\ ~HasRecord(lines[k])}
       IN /\ pc' = "start"
          /\ Len(images') = Cardinality(rec)
          /\ \A j \in 1..Len(images') :
               images'[j] = [url |-> SourceOf(lines[Nth(rec, j)]),
                             file_name |-> DestinationOf(lines[Nth(rec, j)])]
          /\ Len(invalidLines') = Cardinality(bad)
          /\ \A j \in 1..Len(invalidLines') :
               invalidLines'[j] = lines[Nth(bad, j)]]_vars

\* A file of one line with three tokens and one line with one token.
C11_Witness ==
  /\ pc = "start" /\ reader = <<>>
  /\ Len(images) = 1
  /\ images[1].url = <<"a">>
  /\ images[1].file_name = <<"b", " ", "a">>
  /\ invalidLines = <<<<"b">>>>

-----------------------------------------------------------------------------
(* Scheduling of the futures.                                              *)

\* C12 as stated: in every run, ended by a return or by an abort, the
\* existence check of every image has run.
C12_ExactlyOnce == Ended => \A i \in Idx : existed[i] # "unchecked"

\* C12 amended: the future of an image is created when the for loop passes
\* the image, its existence check runs at most once, a future that has
\* left its beginning never returns to it and a completed one never runs
\* again; when main returns normally every image has had its one check.
C12_AtMostOnceExactlyOnReturn ==
  /\ [](/\ \A i \in Idx : ustate[i] = "new" <=> i > launched
        /\ \A i \in Idx : existed[i] = "unchecked" <=> ustate[i] \in {"new", "pushed"}
        /\ pc = "done" => \A i \in Idx : existed[i] # "unchecked" /\ ustate[i] = "done")
  /\ [][/\ launched' >= launched
        /\ \A i \in Idx :
             /\ existed[i] # "unchecked" => existed'[i] = existed[i]
             /\ ustate[i] # "new" => ustate'[i] # "new"
             /\ ustate[i] \notin {"new", "pushed"} => ustate'[i] \notin {"new", "pushed"}
             /\ Completed(i) => ustate'[i] = ustate[i] /\ outcome'[i] = outcome[i]]_vars

C12_Witness ==
  /\ pc = "done" /\ N = MaxImages
  /\ \A i \in Idx : outcome[i] = "Success" /\ existed[i] = "no"

\* C13: the future drained at a wait is the one that returns in that step,
\* whatever its place in the launch order; no future that has returned
\* stays in the set while main waits for another.
C13_ArrivalOrderDrain ==
  /\ [](futures \cap Drained = {})
  /\ [][\A i \in Idx :
          (ustate[i] # "done" /\ ustate'[i] = "done")
            => /\ Awaiting
               /\ i \in futures /\ i \notin futures'
               /\ Drained' = Drained \cup {i}
               /\ progress' = progress + 1]_vars

\* A later future drained while an earlier one is still in flight.
C13_Witness ==
  \E i, j \in Idx :
    /\ i < j
    /\ ustate[j] = "done"
    /\ ustate[i] \in {"get", "bytes"} /\ i \in futures
    /\ Awaiting

\* C14: the futures are pushed, and first polled, in the order of the
\* images: image j is not launched, and its download_image not begun,
\* before image i < j.
C14_LaunchOrder ==
  /\ futures \subseteq 1..launched
  /\ \A i, j \in Idx :
       i < j => /\ ustate[j] # "new" => ustate[i] # "new"
                /\ existed[j] # "unchecked" => existed[i] # "unchecked"

\* The third future is pushed and waits for its first poll behind a woken
\* earlier one.
C14_Witness ==
  /\ N = 3 /\ Awaiting
  /\ ustate[3] = "pushed"
  /\ Len(ready) = 2 /\ ready[2] = 3

-----------------------------------------------------------------------------
(* The filesystem under several futures.                                   *)

\* The future of image i creates its file, or deletes its destination, in
\* this step.
Writes(i) == ~wrote[i] /\ wrote'[i]
Deletes(i) == ~deleted[i] /\ deleted'[i]

\* C15: nothing keeps two futures with one destination apart: a future
\* whose existence check finds the destination absent issues its get
\* whatever else is in flight, every write replaces what the path holds,
\* another future's content included, and the path changes by nothing but
\* the writes and deletions of its futures: the content left is the last
\* writer's, in either launch order.
C15_DuplicateDestinationsRace ==
  /\ [](\A i \in Idx : existed[i] = "no" => netIssued[i] = 1)
  /\ [](\A p \in Paths : fs[p].by # 0 => wrote[fs[p].by] /\ Dest(fs[p].by) = p)
  /\ [][\A i \in Idx :
          Writes(i) => /\ fs'[Dest(i)].by = i
                       /\ \A q \in Paths \ {Dest(i)} : fs'[q] = fs[q]]_vars
  /\ [][\A p \in Paths :
          fs'[p] # fs[p] => \E i \in Idx : Dest(i) = p /\ (Writes(i) \/ Deletes(i))]_vars

\* Two futures with one destination both found it absent and both wrote:
\* the content left is that of the one launched first.
C15_Witness ==
  \E i, j \in Idx :
    /\ i < j /\ Dest(i) = Dest(j)
    /\ existed[i] = "no" /\ existed[j] = "no"
    /\ outcome[i] = "Success" /\ outcome[j] = "Success"
    /\ fs[Dest(i)] = Body(i)

\* C16: when the destination exists, forceRedownload is true and
\* remove_file fails, the future returns FailedToCreateFile in that step,
\* issues no get, and the destination and the directories stay as they were.
C16_DeletionFailure ==
  /\ [](\A i \in Idx :
          (existed[i] = "yes" /\ forceRedownload /\ ~deleted[i])
            => outcome[i] = "FailedToCreateFile" /\ netIssued[i] = 0 /\ ~wrote[i])
  /\ [][\A i \in Idx :
          (existed[i] = "unchecked" /\ existed'[i] = "yes" /\ forceRedownload
             /\ ~deleted'[i])
            => /\ outcome'[i] = "FailedToCreateFile"
               /\ Completed(i)'
               /\ netIssued'[i] = 0
               /\ UNCHANGED <<fs, dirs>>]_vars

C16_Witness ==
  \E i \in Idx :
    /\ forceRedownload /\ ignoreErrors /\ pc = "done"
    /\ existed[i] = "yes" /\ ~deleted[i]
    /\ outcome[i] = "FailedToCreateFile"
    /\ fs[Dest(i)] = Old

\* C17: a path goes from existing to absent only in the step in which a
\* future with that destination, under forceRedownload, finds it at its
\* existence check and removes it; with forceRedownload false a future that
\* found its destination neither removes nor truncates it.
C17_DeletionFrame ==
  /\ [](\A i \in Idx : deleted[i] => forceRedownload /\ existed[i] = "yes")
  /\ [](~forceRedownload =>
          \A i \in Idx : existed[i] = "yes" => ~deleted[i] /\ ~wrote[i])
  /\ [][\A p \in Paths :
          (fs[p] # Absent /\ fs'[p] = Absent)
            => /\ forceRedownload
               /\ \E i \in Idx : /\ Dest(i) = p
                                 /\ existed[i] = "unchecked" /\ existed'[i] = "yes"
                                 /\ Deletes(i)]_vars

\* One future has removed its destination; another file of the same
\* directory, the destination of a future not yet polled, is as it was.
C17_Witness ==
  \E i, j \in Idx :
    /\ Dest(i) # Dest(j)
    /\ deleted[i] /\ fs[Dest(i)] = Absent
    /\ existed[j] = "unchecked" /\ fs[Dest(j)] = Old

\* C20 as stated: whatever the interleaving, a file that futures have
\* written holds the complete body of one of them.
C20_WriteAtomicity ==
  \A p \in Paths : fs[p].by # 0 => fs[p].kind = "body"

\* C20 amended: the future is never suspended between File::create and the
\* end of io::copy, so a file that futures have written holds what exactly
\* one of them wrote, never a mixture: its complete body when that future
\* returned Success, a part of its body when its copy failed
\* (FailedToDownloadToFile).
C20_WriteAtomicityOrPartial ==
  /\ \A i \in Idx : wrote[i] => Completed(i)
  /\ \A p \in Paths :
       /\ fs[p].kind \in {"absent", "old", "body", "partial"}
       /\ fs[p].by # 0 =>
            LET w == fs[p].by IN
              /\ w \in Idx /\ Dest(w) = p /\ wrote[w]
              /\ fs[p].kind = "body" <=> outcome[w] = "Success"
              /\ fs[p].kind = "partial" <=> outcome[w] = "FailedToDownloadToFile"

\* Two futures wrote one destination: the first to write got its whole
\* body in, the copy of the second failed and its part is what is left.
C20_Witness ==
  \E i, j \in Idx :
    /\ i # j /\ Dest(i) = Dest(j)
    /\ wrote[i] /\ wrote[j]
    /\ outcome[j] = "Success"
    /\ fs[Dest(i)] = Partial(i)

-----------------------------------------------------------------------------
(* The fill-then-drain loop.                                               *)

\* C18: the set never holds more than the limit plus one; it holds the
\* limit plus one only while main is in the wait that follows a push (or
\* was, when a future panicked); each wait that returns has removed one
\* future, before the for loop pushes at most one more; after the for loop
\* the set shrinks by one per wait, down to the empty set at the return.
C18_InFlightBound ==
  /\ [](/\ Cardinality(futures) <= ConcurrencyLimit + 1
        /\ Cardinality(futures) = ConcurrencyLimit + 1 => pc \in {"next_for", "panicked"}
        /\ pc = "next_for" => Cardinality(futures) = ConcurrencyLimit + 1
        /\ pc = "next_while" => Cardinality(futures) \in 1..ConcurrencyLimit
        /\ pc = "done" => futures = {})
  /\ [][Drained' # Drained =>
          /\ Cardinality(Drained') = Cardinality(Drained) + 1
          /\ launched' - launched \in {0, 1}
          /\ Cardinality(futures') =
               Cardinality(futures) - 1 + (launched' - launched)
          /\ launched = N => Cardinality(futures') = Cardinality(futures) - 1]_vars

\* In the draining loop, one future left of three.
C18_Witness ==
  /\ N = 3 /\ pc = "next_while"
  /\ Cardinality(futures) = 1 /\ Cardinality(Drained) = 2

\* C19: when the ready futures are polled and every retrieval ends, every
\* run ends, by the panic or by the return of main; and main never awaits
\* futures.next() on an empty set, on a set none of whose futures can
\* still return, or, in the for loop, on a set within the limit.
C19_Liveness ==
  /\ <>Ended
  /\ [](Awaiting => /\ futures # {}
                    /\ \E i \in futures : ustate[i] \in {"pushed", "get", "bytes"})
  /\ [](pc = "next_for" => Cardinality(futures) > ConcurrencyLimit)
  /\ [](pc = "next_while" => launched = N)

\* A run in which every future went to the network has ended.
C19_Witness ==
  /\ pc = "done" /\ N = MaxImages
  /\ \A i \in Idx : netIssued[i] = 1

====
